---- MODULE Spec2Model ----
(***************************************************************************)
(* fincore (misc-utils/fincore.c): count the pages of each file argument   *)
(* that are resident in the page cache.  The model follows main(),         *)
(* fincore_name(), fincore_fd() and do_mincore() statement by statement;   *)
(* the system calls open, fstat, mmap, mincore, munmap and close are the   *)
(* environment and may fail wherever the kernel allows them to.            *)
(***************************************************************************)
EXTENDS Integers, Sequences, FiniteSets, TLC

VARIABLES
    argv,          \* the file arguments argv[optind..argc-1], as file descriptions
    optind,        \* main: index of the argument being processed
    pc,            \* position in the program
    main_rc,       \* main: rc, the exit status
    tb,            \* ctl.tb: the lines added to the output table
    stderr,        \* the warn() diagnostics written so far
    sb,            \* main: struct stat sb of the current iteration
    count_incore,  \* main: count_incore of the current iteration
    fd,            \* fincore_name: fd
    open_fds,      \* the descriptors the process holds open
    name_rc,       \* fincore_name: rc
    ret,           \* the value fincore_name returned to main's switch
    file_offset,   \* fincore_fd: file_offset
    len,           \* fincore_fd: len
    window,        \* fincore_fd: window
    fd_rc,         \* fincore_fd: rc
    warned_once,   \* fincore_fd: warned_once
    vec,           \* do_mincore: static unsigned char vec[N_PAGES_IN_WINDOW]
    mappings,      \* the mappings (vmas) the process holds
    calls,         \* history: mmap/mincore/munmap calls of the current argument
    outcomes,      \* history: one record per argument main's switch has handled
    scan           \* fincore_fd's locals at the widths of their C types

vars == <<argv, optind, pc, main_rc, tb, stderr, sb, count_incore, fd, open_fds,
          name_rc, ret, file_offset, len, window, fd_rc, warned_once, vec,
          mappings, calls, outcomes, scan>>

\* the variables of the run of main, all but scan
progvars == <<argv, optind, pc, main_rc, tb, stderr, sb, count_incore, fd,
              open_fds, name_rc, ret, file_offset, len, window, fd_rc,
              warned_once, vec, mappings, calls, outcomes>>

(***************************************************************************)
(* Bounds of the model.  The scan runs with a small page size and a small  *)
(* number of pages per window, so that files of several windows and the    *)
(* whole residency vector are enumerable.                                  *)
(***************************************************************************)
MaxArgs == 2

PageSize == 2

WindowPages == 2

\* the largest file of the scans at machine width, in GiB
MaxFileGiB == 4

(***************************************************************************)
(* Program constants.                                                      *)
(***************************************************************************)
N_PAGES_IN_WINDOW == 32 * 1024

EXIT_SUCCESS == 0

EXIT_FAILURE == 1

EINVAL == 22

\* errno values a failing fstat or mincore leaves behind (ENOMEM)
Errnos == {12}

\* window values that are no mapping: NULL is (void *) 0, MAP_FAILED (void *) -1
NULL == [arg |-> 0, off |-> 0, len |-> 0]

MAP_FAILED == [arg |-> 0, off |-> -1, len |-> 0]

\* struct stat sb before fstat has filled it: its fields hold no value yet
Uninit == [filled |-> FALSE, st_mode |-> "NONE", st_size |-> 0]

\* values an uninitialized off_t can be read as: whatever the stack held
Indeterminate == {-(2 * PageSize), 0, 1}

\* the bytes mincore can store for a page: bit 0 is the residency flag, the
\* other bits are unspecified
VecBytes == {0, 1, 3}

(***************************************************************************)
(* Arithmetic of fincore_fd and do_mincore.                                *)
(***************************************************************************)
\* size_t window_size = N_PAGES_IN_WINDOW * ctl->pagesize
\* (the scan's operands are far below the width of int and size_t)
window_size(npages, pagesize) == npages * pagesize

\* int n = (len / ctl->pagesize) + ((len % ctl->pagesize)? 1: 0)
n_pages(l, pagesize) ==
    (l \div pagesize) + (IF l % pagesize # 0 THEN 1 ELSE 0)

\* the window size of the scan under the model's page size
WindowSize == window_size(WindowPages, PageSize)

\* len = file_size - file_offset; if (len >= window_size) len = window_size
window_len(file_size, offset, wsize) ==
    LET l == file_size - offset IN IF l >= wsize THEN wsize ELSE l

\* vec[i] & 0x1
Resident(b) == b % 2 = 1

\* variant of count_loop: the loop stops before vec[0] (while (--n > 0))
RECURSIVE count_loop_skips_first(_, _, _)
count_loop_skips_first(v, n, count) ==
    IF n > 1
    THEN IF Resident(v[n - 1])
         THEN count_loop_skips_first([v EXCEPT ![n - 1] = 0], n - 1, count + 1)
         ELSE count_loop_skips_first(v, n - 1, count)
    ELSE [vec |-> v, count |-> count]

\* variant of count_loop: a counted entry is not cleared (no vec[n] = 0)
RECURSIVE count_loop_no_clear(_, _, _)
count_loop_no_clear(v, n, count) ==
    IF n > 0
    THEN IF Resident(v[n - 1])
         THEN count_loop_no_clear(v, n - 1, count + 1)
         ELSE count_loop_no_clear(v, n - 1, count)
    ELSE [vec |-> v, count |-> count]

\* while (n > 0) { if (vec[--n] & 0x1) { vec[n] = 0; (*count_incore)++; } }
RECURSIVE count_loop(_, _, _)
count_loop(v, n, count) ==
    IF n > 0
    THEN IF Resident(v[n - 1])
         THEN count_loop([v EXCEPT ![n - 1] = 0], n - 1, count + 1)
         ELSE count_loop(v, n - 1, count)
    ELSE [vec |-> v, count |-> count]

\* fincore_fd is not running at machine width
ScanIdle ==
    [pc |-> "idle", pagesize |-> 0, file_size |-> 0, window_size |-> 0,
     file_offset |-> 0, len |-> 0, n |-> 0, rc |-> 0]

(***************************************************************************)
(* The files the arguments can name.                                       *)
(***************************************************************************)
FileSizes ==
    {0, 1, PageSize + 1, WindowSize, WindowSize + 1, 2 * WindowSize}

Files ==
    {[kind |-> "NOENT", size |-> 0]}
      \cup {[kind |-> "DIR", size |-> PageSize]}
      \cup {[kind |-> "REG", size |-> s] : s \in FileSizes}
      \cup {[kind |-> "OTHER", size |-> s] : s \in {0, PageSize + 1}}

ArgLists == UNION {[1..n -> Files] : n \in 1..MaxArgs}

\* what mincore stores in the first n bytes of the vector
VecResults(n) == [0..(n - 1) -> VecBytes]

Overwrite(v, r) == [i \in DOMAIN v |-> IF i \in DOMAIN r THEN r[i] ELSE v[i]]

\* the lowest descriptor not in use
LowestFd == CHOOSE d \in 3..(3 + MaxArgs) :
               d \notin open_fds /\ \A e \in 3..(d - 1) : e \in open_fds

Diag(msg) == [msg |-> msg, arg |-> optind]

(***************************************************************************)
(* Initial state: main() up to the loop over the arguments.                *)
(***************************************************************************)
Init ==
    /\ argv \in ArgLists
    /\ optind = 1
    /\ pc = "main"
    /\ main_rc = EXIT_SUCCESS
    /\ tb = <<>>
    /\ stderr = <<>>
    /\ sb = Uninit
    /\ count_incore = 0
    /\ fd = -1
    /\ open_fds = {}
    /\ name_rc = 0
    /\ ret = 0
    /\ file_offset = 0
    /\ len = 0
    /\ window = NULL
    /\ fd_rc = 0
    /\ warned_once = FALSE
    /\ vec = [i \in 0..(WindowPages - 1) |-> 0]
    /\ mappings = {}
    /\ calls = <<>>
    /\ outcomes = <<>>
    /\ scan = ScanIdle

(***************************************************************************)
(* main: the loop over the arguments.                                      *)
(***************************************************************************)
\* variant of main_loop: count_incore is not set to 0 for each argument, so
\* a file's count starts from the count of the file before it
main_loop_keeps_count ==
    /\ pc = "main"
    /\ optind <= Len(argv)
    /\ sb' = Uninit
    /\ calls' = <<>>
    /\ pc' = "open"
    /\ UNCHANGED <<scan, argv, optind, main_rc, tb, stderr, fd, open_fds, name_rc, ret,
                   file_offset, len, window, fd_rc, warned_once, vec, mappings,
                   outcomes, count_incore>>

\* for(; optind < argc; optind++) { struct stat sb; off_t count_incore = 0;
main_loop ==
    /\ pc = "main"
    /\ optind <= Len(argv)
    /\ sb' = Uninit
    /\ count_incore' = 0
    /\ calls' = <<>>
    /\ pc' = "open"
    /\ UNCHANGED <<scan, argv, optind, main_rc, tb, stderr, fd, open_fds, name_rc, ret,
                   file_offset, len, window, fd_rc, warned_once, vec, mappings,
                   outcomes>>

\* the loop ends: scols_print_table(ctl.tb); return rc
main_exit ==
    /\ pc = "main"
    /\ optind > Len(argv)
    /\ pc' = "done"
    /\ UNCHANGED <<scan, argv, optind, main_rc, tb, stderr, sb, count_incore, fd,
                   open_fds, name_rc, ret, file_offset, len, window, fd_rc,
                   warned_once, vec, mappings, calls, outcomes>>

(***************************************************************************)
(* fincore_name                                                            *)
(***************************************************************************)
\* variant of fincore_name_open: a failed open returns -errno (ENOENT)
fincore_name_open_returns_errno ==
    /\ pc = "open"
    /\ \/ /\ argv[optind].kind # "NOENT"
          /\ fd' = LowestFd
          /\ open_fds' = open_fds \cup {LowestFd}
          /\ name_rc' = 0
          /\ pc' = "fstat"
          /\ UNCHANGED <<stderr, ret>>
       \/ /\ argv[optind].kind = "NOENT"
          /\ fd' = -1
          /\ stderr' = Append(stderr, Diag("failed to open"))
          /\ ret' = -2
          /\ pc' = "switch"
          /\ UNCHANGED <<open_fds, name_rc>>
    /\ UNCHANGED <<scan, argv, optind, main_rc, tb, sb, count_incore, file_offset, len,
                   window, fd_rc, warned_once, vec, mappings, calls, outcomes>>

\* int rc = 0; if ((fd = open (name, O_RDONLY)) < 0) { warn(...); return 0; }
fincore_name_open ==
    /\ pc = "open"
    /\ \/ /\ argv[optind].kind # "NOENT"
          /\ fd' = LowestFd
          /\ open_fds' = open_fds \cup {LowestFd}
          /\ name_rc' = 0
          /\ pc' = "fstat"
          /\ UNCHANGED <<stderr, ret>>
       \/ /\ argv[optind].kind = "NOENT"
          /\ fd' = -1
          /\ stderr' = Append(stderr, Diag("failed to open"))
          /\ ret' = 0
          /\ pc' = "switch"
          /\ UNCHANGED <<open_fds, name_rc>>
    /\ UNCHANGED <<scan, argv, optind, main_rc, tb, sb, count_incore, file_offset, len,
                   window, fd_rc, warned_once, vec, mappings, calls, outcomes>>

\* variant of fincore_name_fstat: a failed fstat returns rc (0), like a
\* failed open
fincore_name_fstat_returns_rc ==
    /\ pc = "fstat"
    /\ \/ /\ sb' = [filled |-> TRUE, st_mode |-> argv[optind].kind,
                  st_size |-> argv[optind].size]
          /\ pc' = "classify"
          /\ UNCHANGED <<stderr, ret>>
       \/ \E e \in Errnos :
          /\ stderr' = Append(stderr, Diag("failed to do fstat"))
          /\ ret' = name_rc
          /\ pc' = "switch"
          /\ UNCHANGED sb
    /\ UNCHANGED <<scan, argv, optind, main_rc, tb, count_incore, fd, open_fds, name_rc,
                   file_offset, len, window, fd_rc, warned_once, vec, mappings,
                   calls, outcomes>>

\* if (fstat (fd, sb) < 0) { warn(...); return -errno; }
fincore_name_fstat ==
    /\ pc = "fstat"
    /\ \/ /\ sb' = [filled |-> TRUE, st_mode |-> argv[optind].kind,
                  st_size |-> argv[optind].size]
          /\ pc' = "classify"
          /\ UNCHANGED <<stderr, ret>>
       \/ \E e \in Errnos :
          /\ stderr' = Append(stderr, Diag("failed to do fstat"))
          /\ ret' = -e
          /\ pc' = "switch"
          /\ UNCHANGED sb
    /\ UNCHANGED <<scan, argv, optind, main_rc, tb, count_incore, fd, open_fds, name_rc,
                   file_offset, len, window, fd_rc, warned_once, vec, mappings,
                   calls, outcomes>>

\* variant of fincore_name_classify: no S_ISDIR test
fincore_name_classify_no_isdir ==
    /\ pc = "classify"
    /\ \/ /\ sb.st_size # 0
          /\ file_offset' = 0
          /\ window' = NULL
          /\ fd_rc' = 0
          /\ warned_once' = FALSE
          /\ pc' = "loop"
          /\ UNCHANGED name_rc
       \/ /\ sb.st_size = 0
          /\ pc' = "close"
          /\ UNCHANGED <<name_rc, file_offset, window, fd_rc, warned_once>>
    /\ UNCHANGED <<scan, argv, optind, main_rc, tb, stderr, sb, count_incore, fd,
                   open_fds, ret, len, vec, mappings, calls, outcomes>>

\* variant of fincore_name_classify: an empty file is ignored like a directory
fincore_name_classify_ignore_empty ==
    /\ pc = "classify"
    /\ \/ /\ (sb.st_mode = "DIR" \/ sb.st_size = 0)
          /\ name_rc' = 1
          /\ pc' = "close"
          /\ UNCHANGED <<file_offset, window, fd_rc, warned_once>>
       \/ /\ sb.st_mode # "DIR"
          /\ sb.st_size # 0
          /\ file_offset' = 0
          /\ window' = NULL
          /\ fd_rc' = 0
          /\ warned_once' = FALSE
          /\ pc' = "loop"
          /\ UNCHANGED name_rc
    /\ UNCHANGED <<scan, argv, optind, main_rc, tb, stderr, sb, count_incore, fd,
                   open_fds, ret, len, vec, mappings, calls, outcomes>>

\* if (S_ISDIR(sb->st_mode)) rc = 1; else if (sb->st_size) rc = fincore_fd(...);
\* entering fincore_fd: file_offset = 0, window = NULL, rc = 0, warned_once = 0
fincore_name_classify ==
    /\ pc = "classify"
    /\ \/ /\ sb.st_mode = "DIR"
          /\ name_rc' = 1
          /\ pc' = "close"
          /\ UNCHANGED <<file_offset, window, fd_rc, warned_once>>
       \/ /\ sb.st_mode # "DIR"
          /\ sb.st_size # 0
          /\ file_offset' = 0
          /\ window' = NULL
          /\ fd_rc' = 0
          /\ warned_once' = FALSE
          /\ pc' = "loop"
          /\ UNCHANGED name_rc
       \/ /\ sb.st_mode # "DIR"
          /\ sb.st_size = 0
          /\ pc' = "close"
          /\ UNCHANGED <<name_rc, file_offset, window, fd_rc, warned_once>>
    /\ UNCHANGED <<scan, argv, optind, main_rc, tb, stderr, sb, count_incore, fd,
                   open_fds, ret, len, vec, mappings, calls, outcomes>>

\* close (fd); return rc;
fincore_name_close ==
    /\ pc = "close"
    /\ open_fds' = open_fds \ {fd}
    /\ ret' = name_rc
    /\ pc' = "switch"
    /\ UNCHANGED <<scan, argv, optind, main_rc, tb, stderr, sb, count_incore, fd,
                   name_rc, file_offset, len, window, fd_rc, warned_once, vec,
                   mappings, calls, outcomes>>

(***************************************************************************)
(* fincore_fd                                                              *)
(***************************************************************************)
\* variant of fincore_fd_loop: the loop test is file_offset <= file_size
fincore_fd_loop_inclusive ==
    /\ pc = "loop"
    /\ \/ /\ file_offset <= sb.st_size
          /\ len' = window_len(sb.st_size, file_offset, WindowSize)
          /\ pc' = "mmap"
          /\ UNCHANGED name_rc
       \/ /\ ~(file_offset <= sb.st_size)
          /\ name_rc' = fd_rc
          /\ pc' = "close"
          /\ UNCHANGED len
    /\ UNCHANGED <<scan, argv, optind, main_rc, tb, stderr, sb, count_incore, fd,
                   open_fds, ret, file_offset, window, fd_rc, warned_once, vec,
                   mappings, calls, outcomes>>

\* for (...; file_offset < file_size; ...) { len = file_size - file_offset;
\*   if (len >= window_size) len = window_size;  ...  }  return rc;
fincore_fd_loop ==
    /\ pc = "loop"
    /\ \/ /\ file_offset < sb.st_size
          /\ len' = window_len(sb.st_size, file_offset, WindowSize)
          /\ pc' = "mmap"
          /\ UNCHANGED name_rc
       \/ /\ ~(file_offset < sb.st_size)
          /\ name_rc' = fd_rc
          /\ pc' = "close"
          /\ UNCHANGED len
    /\ UNCHANGED <<scan, argv, optind, main_rc, tb, stderr, sb, count_incore, fd,
                   open_fds, ret, file_offset, window, fd_rc, warned_once, vec,
                   mappings, calls, outcomes>>

\* variant of fincore_fd_mmap: a failed mmap goes on to the next window
\* (continue instead of break)
fincore_fd_mmap_continue ==
    /\ pc = "mmap"
    /\ \/ LET m == [arg |-> optind, off |-> file_offset, len |-> len] IN
          /\ window' = m
          /\ mappings' = mappings \cup {m}
          /\ calls' = Append(calls, [op |-> "mmap", off |-> file_offset,
                                     len |-> len, ok |-> TRUE])
          /\ pc' = "mincore"
          /\ UNCHANGED <<stderr, fd_rc, warned_once, name_rc, file_offset>>
       \/ /\ window' = MAP_FAILED
          /\ calls' = Append(calls, [op |-> "mmap", off |-> file_offset,
                                     len |-> len, ok |-> FALSE])
          /\ IF ~warned_once
             THEN /\ fd_rc' = -EINVAL
                  /\ stderr' = Append(stderr, Diag("failed to do mmap"))
                  /\ warned_once' = TRUE
             ELSE UNCHANGED <<fd_rc, stderr, warned_once>>
          /\ file_offset' = file_offset + WindowSize
          /\ pc' = "loop"
          /\ UNCHANGED <<mappings, name_rc>>
    /\ UNCHANGED <<scan, argv, optind, main_rc, tb, sb, count_incore, fd, open_fds, ret,
                   len, vec, outcomes>>

\* variant of fincore_fd_mmap: no warned_once, and a failed mmap goes on to
\* the next window, so every failing window is reported
fincore_fd_mmap_floods ==
    /\ pc = "mmap"
    /\ \/ LET m == [arg |-> optind, off |-> file_offset, len |-> len] IN
          /\ window' = m
          /\ mappings' = mappings \cup {m}
          /\ calls' = Append(calls, [op |-> "mmap", off |-> file_offset,
                                     len |-> len, ok |-> TRUE])
          /\ pc' = "mincore"
          /\ UNCHANGED <<stderr, fd_rc, warned_once, name_rc, file_offset>>
       \/ /\ window' = MAP_FAILED
          /\ calls' = Append(calls, [op |-> "mmap", off |-> file_offset,
                                     len |-> len, ok |-> FALSE])
          /\ fd_rc' = -EINVAL
          /\ stderr' = Append(stderr, Diag("failed to do mmap"))
          /\ file_offset' = file_offset + WindowSize
          /\ pc' = "loop"
          /\ UNCHANGED <<mappings, name_rc, warned_once>>
    /\ UNCHANGED <<scan, argv, optind, main_rc, tb, sb, count_incore, fd, open_fds, ret,
                   len, vec, outcomes>>

\* window = mmap(window, len, PROT_NONE, MAP_PRIVATE, fd, file_offset);
\* if (window == MAP_FAILED) { if (!warned_once) { rc = -EINVAL; warn(...);
\*   warned_once = 1; } break; }
fincore_fd_mmap ==
    /\ pc = "mmap"
    /\ \/ LET m == [arg |-> optind, off |-> file_offset, len |-> len] IN
          /\ window' = m
          /\ mappings' = mappings \cup {m}
          /\ calls' = Append(calls, [op |-> "mmap", off |-> file_offset,
                                     len |-> len, ok |-> TRUE])
          /\ pc' = "mincore"
          /\ UNCHANGED <<stderr, fd_rc, warned_once, name_rc>>
       \/ /\ window' = MAP_FAILED
          /\ calls' = Append(calls, [op |-> "mmap", off |-> file_offset,
                                     len |-> len, ok |-> FALSE])
          /\ IF ~warned_once
             THEN /\ fd_rc' = -EINVAL
                  /\ stderr' = Append(stderr, Diag("failed to do mmap"))
                  /\ warned_once' = TRUE
             ELSE UNCHANGED <<fd_rc, stderr, warned_once>>
          /\ name_rc' = fd_rc'
          /\ pc' = "close"
          /\ UNCHANGED mappings
    /\ UNCHANGED <<scan, argv, optind, main_rc, tb, sb, count_incore, fd, open_fds, ret,
                   file_offset, len, vec, outcomes>>

\* munmap (window, len); then the loop's file_offset += window_size
fincore_fd_munmap ==
    /\ pc = "munmap"
    /\ mappings' = mappings \ {window}
    /\ calls' = Append(calls, [op |-> "munmap", off |-> file_offset,
                               len |-> len, ok |-> TRUE])
    /\ file_offset' = file_offset + WindowSize
    /\ pc' = "loop"
    /\ UNCHANGED <<scan, argv, optind, main_rc, tb, stderr, sb, count_incore, fd,
                   open_fds, name_rc, ret, len, window, fd_rc, warned_once, vec,
                   outcomes>>

(***************************************************************************)
(* do_mincore                                                              *)
(***************************************************************************)
\* variant of do_mincore_call: fincore_fd does not leave the loop when
\* do_mincore fails (no "if (rc) break")
do_mincore_call_no_break ==
    /\ pc = "mincore"
    /\ LET n == n_pages(len, PageSize) IN
       \/ \E r \in VecResults(n) :
          /\ vec' = Overwrite(vec, r)
          /\ calls' = Append(calls, [op |-> "mincore", off |-> file_offset,
                                     len |-> len, ok |-> TRUE])
          /\ pc' = "count"
          /\ UNCHANGED <<stderr, fd_rc, name_rc>>
       \/ \E e \in Errnos, k \in 0..(n - 1) : \E r \in VecResults(k) :
          /\ vec' = Overwrite(vec, r)
          /\ calls' = Append(calls, [op |-> "mincore", off |-> file_offset,
                                     len |-> len, ok |-> FALSE])
          /\ stderr' = Append(stderr, Diag("failed to do mincore"))
          /\ fd_rc' = -e
          /\ pc' = "munmap"
          /\ UNCHANGED name_rc
    /\ UNCHANGED <<scan, argv, optind, main_rc, tb, sb, count_incore, fd, open_fds, ret,
                   file_offset, len, window, warned_once, mappings, outcomes>>

\* if (mincore (window, len, vec) < 0) { warn(...); return -errno; }
\* A successful call stores one byte per page of the window; a failing call
\* may have stored the bytes of some leading pages before it failed.  In
\* fincore_fd: rc = do_mincore(...); if (rc) break;
do_mincore_call ==
    /\ pc = "mincore"
    /\ LET n == n_pages(len, PageSize) IN
       \/ \E r \in VecResults(n) :
          /\ vec' = Overwrite(vec, r)
          /\ calls' = Append(calls, [op |-> "mincore", off |-> file_offset,
                                     len |-> len, ok |-> TRUE])
          /\ pc' = "count"
          /\ UNCHANGED <<stderr, fd_rc, name_rc>>
       \/ \E e \in Errnos, k \in 0..(n - 1) : \E r \in VecResults(k) :
          /\ vec' = Overwrite(vec, r)
          /\ calls' = Append(calls, [op |-> "mincore", off |-> file_offset,
                                     len |-> len, ok |-> FALSE])
          /\ stderr' = Append(stderr, Diag("failed to do mincore"))
          /\ fd_rc' = -e
          /\ name_rc' = -e
          /\ pc' = "close"
    /\ UNCHANGED <<scan, argv, optind, main_rc, tb, sb, count_incore, fd, open_fds, ret,
                   file_offset, len, window, warned_once, mappings, outcomes>>

\* the counting loop over vec[n-1] .. vec[0]; return 0; back in fincore_fd
\* rc = 0 does not leave the loop
do_mincore_count ==
    /\ pc = "count"
    /\ LET c == count_loop(vec, n_pages(len, PageSize), count_incore) IN
       /\ vec' = c.vec
       /\ count_incore' = c.count
    /\ fd_rc' = 0
    /\ pc' = "munmap"
    /\ UNCHANGED <<scan, argv, optind, main_rc, tb, stderr, sb, fd, open_fds, name_rc,
                   ret, file_offset, len, window, warned_once, mappings, calls,
                   outcomes>>

(***************************************************************************)
(* main: the switch on fincore_name's result, and add_output_data.         *)
(***************************************************************************)
\* the line add_output_data adds: FILE, SIZE and PAGES cells
add_output_data(name, file_size, count) ==
    [arg |-> name, size |-> file_size, pages |-> count]

\* sb.st_size as main reads it: indeterminate when fstat never filled sb
st_size_read == IF sb.filled THEN {sb.st_size} ELSE Indeterminate

Outcome(rc_after) ==
    [arg |-> optind, ret |-> ret, calls |-> calls,
     rc_before |-> main_rc, rc_after |-> rc_after]

\* variant of main_switch: the default case leaves the loop (return rc)
main_switch_stops_on_failure ==
    /\ pc = "switch"
    /\ \/ /\ ret = 0
          /\ \E size \in st_size_read :
                tb' = Append(tb, add_output_data(optind, size, count_incore))
          /\ pc' = "main"
          /\ UNCHANGED main_rc
       \/ /\ ret = 1
          /\ pc' = "main"
          /\ UNCHANGED <<tb, main_rc>>
       \/ /\ ret \notin {0, 1}
          /\ main_rc' = EXIT_FAILURE
          /\ pc' = "done"
          /\ UNCHANGED tb
    /\ outcomes' = Append(outcomes, Outcome(main_rc'))
    /\ optind' = optind + 1
    /\ UNCHANGED <<scan, argv, stderr, sb, count_incore, fd, open_fds, name_rc, ret,
                   file_offset, len, window, fd_rc, warned_once, vec, mappings,
                   calls>>

\* switch (fincore_name(...)) { case 0: add_output_data(...); break;
\*   case 1: break; default: rc = EXIT_FAILURE; break; }  optind++
main_switch ==
    /\ pc = "switch"
    /\ \/ /\ ret = 0
          /\ \E size \in st_size_read :
                tb' = Append(tb, add_output_data(optind, size, count_incore))
          /\ UNCHANGED main_rc
       \/ /\ ret = 1
          /\ UNCHANGED <<tb, main_rc>>
       \/ /\ ret \notin {0, 1}
          /\ main_rc' = EXIT_FAILURE
          /\ UNCHANGED tb
    /\ outcomes' = Append(outcomes, Outcome(main_rc'))
    /\ optind' = optind + 1
    /\ pc' = "main"
    /\ UNCHANGED <<scan, argv, stderr, sb, count_incore, fd, open_fds, name_rc, ret,
                   file_offset, len, window, fd_rc, warned_once, vec, mappings,
                   calls>>

Next ==
    \/ main_loop
    \/ main_exit
    \/ fincore_name_open
    \/ fincore_name_fstat
    \/ fincore_name_classify
    \/ fincore_name_close
    \/ fincore_fd_loop
    \/ fincore_fd_mmap
    \/ fincore_fd_munmap
    \/ do_mincore_call
    \/ do_mincore_count
    \/ main_switch

Spec == Init /\ [][Next]_vars

(***************************************************************************)
(* The same path given twice: fincore f f.  The run is the run of main on  *)
(* an argument list whose two entries are one file, and the history of     *)
(* each successful mincore call also keeps the set of pages the kernel     *)
(* reported resident, so that the residency of the two scans is comparable.*)
(***************************************************************************)
\* argv holds the same path twice
InitTwice ==
    /\ argv \in {<<f, f>> : f \in Files}
    /\ optind = 1
    /\ pc = "main"
    /\ main_rc = EXIT_SUCCESS
    /\ tb = <<>>
    /\ stderr = <<>>
    /\ sb = Uninit
    /\ count_incore = 0
    /\ fd = -1
    /\ open_fds = {}
    /\ name_rc = 0
    /\ ret = 0
    /\ file_offset = 0
    /\ len = 0
    /\ window = NULL
    /\ fd_rc = 0
    /\ warned_once = FALSE
    /\ vec = [i \in 0..(WindowPages - 1) |-> 0]
    /\ mappings = {}
    /\ calls = <<>>
    /\ outcomes = <<>>
    /\ scan = ScanIdle

\* do_mincore's call of mincore, as do_mincore_call, the history of a
\* successful call keeping the pages whose byte has the residency bit set
do_mincore_call_logged ==
    /\ pc = "mincore"
    /\ LET n == n_pages(len, PageSize) IN
       \/ \E r \in VecResults(n) :
          /\ vec' = Overwrite(vec, r)
          /\ calls' = Append(calls, [op |-> "mincore", off |-> file_offset,
                                     len |-> len, ok |-> TRUE,
                                     res |-> {i \in DOMAIN r : Resident(r[i])}])
          /\ pc' = "count"
          /\ UNCHANGED <<stderr, fd_rc, name_rc>>
       \/ \E e \in Errnos, k \in 0..(n - 1) : \E r \in VecResults(k) :
          /\ vec' = Overwrite(vec, r)
          /\ calls' = Append(calls, [op |-> "mincore", off |-> file_offset,
                                     len |-> len, ok |-> FALSE])
          /\ stderr' = Append(stderr, Diag("failed to do mincore"))
          /\ fd_rc' = -e
          /\ name_rc' = -e
          /\ pc' = "close"
    /\ UNCHANGED <<scan, argv, optind, main_rc, tb, sb, count_incore, fd, open_fds, ret,
                   file_offset, len, window, warned_once, mappings, outcomes>>

NextTwice ==
    \/ main_loop
    \/ main_exit
    \/ fincore_name_open
    \/ fincore_name_fstat
    \/ fincore_name_classify
    \/ fincore_name_close
    \/ fincore_fd_loop
    \/ fincore_fd_mmap
    \/ fincore_fd_munmap
    \/ do_mincore_call_logged
    \/ do_mincore_count
    \/ main_switch

SpecTwice == InitTwice /\ [][NextTwice]_vars

(***************************************************************************)
(* fincore_fd at the widths of its C types: pagesize and N_PAGES_IN_WINDOW *)
(* are int (32 bits), window_size and len are size_t and file_size and     *)
(* file_offset are off_t (64 bits).  Sizes are counted in KiB; the page    *)
(* sizes and file sizes of this part are whole KiB, so every size and      *)
(* offset is.  A 64-bit value is written as the integer its bits denote in *)
(* two's complement: an off_t is its value, and a size_t above 2^63 is     *)
(* written as its value minus 2^64.                                        *)
(***************************************************************************)
KiBPerGiB == 1024 * 1024

\* 2^32 bytes, the span of an int, in KiB
IntSpan == 4 * KiBPerGiB

\* ctl->pagesize = getpagesize(), in KiB
PageSizes == {4, 16, 64}

\* file sizes in KiB: below, at and above one window of each page size, and
\* whole GiB
ScanFileSizes ==
    {1, 4, 128 * 1024, 128 * 1024 + 1, 512 * 1024, 512 * 1024 + 1,
     2 * KiBPerGiB, 2 * KiBPerGiB + 64}
      \cup {g * KiBPerGiB : g \in 1..MaxFileGiB}

\* the int with the low 32 bits of x
to_int(x) ==
    LET m == x % IntSpan IN IF m >= IntSpan \div 2 THEN m - IntSpan ELSE m

\* a * b in int arithmetic: the product when it is an int; an overflow is
\* undefined, and gives the wrapped product (a 32-bit multiply) or the
\* full product (a multiply at the width of the size_t it is stored in)
int_mul(a, b) == {to_int(a * b), a * b}

\* a < b as size_t: the order of the unsigned 64-bit values
size_t_less(a, b) == IF (a < 0) = (b < 0) THEN a < b ELSE b < 0

InitWindow ==
    /\ argv = <<>>
    /\ optind = 1
    /\ pc = "main"
    /\ main_rc = EXIT_SUCCESS
    /\ tb = <<>>
    /\ stderr = <<>>
    /\ sb = Uninit
    /\ count_incore = 0
    /\ fd = -1
    /\ open_fds = {}
    /\ name_rc = 0
    /\ ret = 0
    /\ file_offset = 0
    /\ len = 0
    /\ window = NULL
    /\ fd_rc = 0
    /\ warned_once = FALSE
    /\ vec = [i \in 0..(WindowPages - 1) |-> 0]
    /\ mappings = {}
    /\ calls = <<>>
    /\ outcomes = <<>>
    /\ scan \in {[ScanIdle EXCEPT !.pc = "entry", !.pagesize = p,
                                   !.file_size = s] :
                    p \in PageSizes, s \in ScanFileSizes}

\* size_t window_size = N_PAGES_IN_WINDOW * ctl->pagesize; int rc = 0;
\* for (file_offset = 0; ...
fincore_fd_entry_w ==
    /\ scan.pc = "entry"
    /\ \E w \in int_mul(N_PAGES_IN_WINDOW, scan.pagesize) :
          scan' = [scan EXCEPT !.window_size = w, !.file_offset = 0,
                               !.rc = 0, !.pc = "loop"]
    /\ UNCHANGED progvars

\* file_offset < file_size; len = file_size - file_offset;
\* if (len >= window_size) len = window_size;
fincore_fd_loop_w ==
    /\ scan.pc = "loop"
    /\ IF scan.file_offset < scan.file_size
          THEN LET l == scan.file_size - scan.file_offset IN
               scan' = [scan EXCEPT
                          !.len = IF size_t_less(l, scan.window_size)
                                     THEN l ELSE scan.window_size,
                          !.pc = "mmap"]
          ELSE scan' = [scan EXCEPT !.pc = "return"]
    /\ UNCHANGED progvars

\* window = mmap(window, len, PROT_NONE, MAP_PRIVATE, fd, file_offset);
\* the kernel maps no file at a negative offset
fincore_fd_mmap_w ==
    /\ scan.pc = "mmap"
    /\ \/ /\ scan.file_offset >= 0
          /\ scan' = [scan EXCEPT !.pc = "mincore"]
       \/ scan' = [scan EXCEPT !.rc = -EINVAL, !.pc = "return"]
    /\ UNCHANGED progvars

\* int n = (len / ctl->pagesize) + ((len % ctl->pagesize)? 1: 0);
\* mincore (window, len, vec): a successful call stores n bytes in vec, which
\* has N_PAGES_IN_WINDOW; storing more is undefined and the scan is not
\* followed further
do_mincore_w ==
    /\ scan.pc = "mincore"
    /\ LET n == n_pages(scan.len, scan.pagesize) IN
       \/ scan' = [scan EXCEPT !.n = n,
                      !.pc = IF n <= N_PAGES_IN_WINDOW THEN "munmap"
                                                       ELSE "overrun"]
       \/ \E e \in Errnos :
             scan' = [scan EXCEPT !.n = n, !.rc = -e, !.pc = "return"]
    /\ UNCHANGED progvars

\* munmap (window, len); file_offset += window_size
fincore_fd_munmap_w ==
    /\ scan.pc = "munmap"
    /\ scan' = [scan EXCEPT !.file_offset = @ + scan.window_size,
                            !.pc = "loop"]
    /\ UNCHANGED progvars

NextWindow ==
    \/ fincore_fd_entry_w
    \/ fincore_fd_loop_w
    \/ fincore_fd_mmap_w
    \/ do_mincore_w
    \/ fincore_fd_munmap_w

SpecWindow == InitWindow /\ [][NextWindow]_vars

\* every step of the program is a blocking call that returns: the run
\* proceeds as long as a step is enabled
FairSpec == Spec /\ WF_vars(Next)

(***************************************************************************)
(* Vocabulary of the properties.                                           *)
(***************************************************************************)
\* the arguments main's switch has handled
Processed == 1..Len(outcomes)

\* a diagnostic with this message was written for argument i
HasDiag(i, msg) ==
    \E k \in 1..Len(stderr) : stderr[k].arg = i /\ stderr[k].msg = msg

OpenFailed(i) == HasDiag(i, "failed to open")

FstatFailed(i) == HasDiag(i, "failed to do fstat")

MmapFailed(i) == HasDiag(i, "failed to do mmap")

MincoreFailed(i) == HasDiag(i, "failed to do mincore")

\* argument i suffered a metadata-query, mapping or residency-query failure
Fatal(i) == FstatFailed(i) \/ MmapFailed(i) \/ MincoreFailed(i)

\* the table lines of argument i
Rows(i) == {k \in 1..Len(tb) : tb[k].arg = i}

\* the mmap calls among a sequence of calls
MmapCalls(c) == SelectSeq(c, LAMBDA x : x.op = "mmap")

RECURSIVE SumLen(_)
SumLen(m) == IF m = <<>> THEN 0 ELSE Head(m).len + SumLen(Tail(m))

\* ceil(a / b) for b > 0
CeilDiv(a, b) == -((-a) \div b)

\* positions inside fincore_fd and do_mincore
ScanPcs == {"loop", "mmap", "mincore", "count", "munmap"}

(***************************************************************************)
(* C1.  The exit status is failure exactly when some handled argument      *)
(* suffered an fstat, mmap or mincore failure; it starts as success, never *)
(* goes back from failure to success, and an argument without such a       *)
(* failure (a directory, a zero-byte file, a failed open) leaves it as it  *)
(* was.                                                                    *)
(***************************************************************************)
C1_StatusIffFatal ==
    /\ main_rc \in {EXIT_SUCCESS, EXIT_FAILURE}
    /\ (main_rc = EXIT_FAILURE) <=> (\E i \in Processed : Fatal(i))

C1_StatusStep ==
    /\ (main_rc = EXIT_FAILURE) => (main_rc' = EXIT_FAILURE)
    /\ (pc = "switch" /\ ~Fatal(optind)) => (main_rc' = main_rc)

\* C1: the exit status is failure iff a handled argument failed fatally, and
\* it is never reset nor changed by an argument without a fatal failure
C1_ExitStatus == [](C1_StatusIffFatal) /\ [][C1_StatusStep]_vars

\* a run of two arguments ends in failure: the first failed fatally, the
\* second one was handled without failure and did not reset the status
C1_Witness ==
    /\ pc = "done"
    /\ Len(argv) = 2
    /\ Fatal(1)
    /\ ~Fatal(2)
    /\ outcomes[2].ret \in {0, 1}
    /\ main_rc = EXIT_FAILURE

(***************************************************************************)
(* C2.  Every argument is handled exactly once and in input order, with    *)
(* exactly one outcome: Scanned (one table line, status untouched),        *)
(* Skipped (no line, status untouched) or Failed (no line, status set to   *)
(* failure).  The table lines are in argument order, at most one per       *)
(* argument.  A failure does not end the run: the run goes on step by step *)
(* to its end, and at its end every argument, the last one included, has   *)
(* been handled.                                                           *)
(***************************************************************************)
Scanned(i) ==
    /\ Cardinality(Rows(i)) = 1
    /\ outcomes[i].rc_after = outcomes[i].rc_before

Skipped(i) ==
    /\ Rows(i) = {}
    /\ outcomes[i].rc_after = outcomes[i].rc_before

Failed(i) ==
    /\ Rows(i) = {}
    /\ outcomes[i].ret < 0
    /\ outcomes[i].rc_after = EXIT_FAILURE

C2_Orderly ==
    /\ Len(outcomes) <= Len(argv)
    /\ Len(outcomes) = optind - 1
    /\ \A i \in Processed : outcomes[i].arg = i
    /\ \A i \in Processed :
          \/ outcomes[i].ret = 0 /\ Scanned(i)
          \/ outcomes[i].ret = 1 /\ Skipped(i)
          \/ outcomes[i].ret \notin {0, 1} /\ Failed(i)
    /\ \A k \in 1..Len(tb) : tb[k].arg \in Processed
    /\ \A k, l \in 1..Len(tb) : k < l => tb[k].arg < tb[l].arg
    /\ pc = "done" => Len(outcomes) = Len(argv)

\* the windows the loop of fincore_fd has still to visit
WindowsLeft ==
    IF file_offset < sb.st_size
    THEN CeilDiv(sb.st_size - file_offset, WindowSize)
    ELSE 0

\* the largest number of windows of a file
MaxWindowsLeft ==
    LET big == CHOOSE f \in Files : \A g \in Files : g.size <= f.size
    IN  CeilDiv(big.size, WindowSize)

\* the steps one argument can take at most, from main_loop to main_switch
StepsPerArg == 5 * MaxWindowsLeft + 13

\* the steps the current argument can still take from its position
StepsLeft ==
    CASE pc = "done" -> 0
      [] pc = "switch" -> 1
      [] pc = "close" -> 2
      [] pc = "munmap" -> 5 * WindowsLeft + 3
      [] pc = "count" -> 5 * WindowsLeft + 4
      [] pc = "mincore" -> 5 * WindowsLeft + 5
      [] pc = "mmap" -> 5 * WindowsLeft + 6
      [] pc = "loop" -> 5 * WindowsLeft + 7
      [] pc = "classify" -> 5 * MaxWindowsLeft + 9
      [] pc = "fstat" -> 5 * MaxWindowsLeft + 10
      [] pc = "open" -> 5 * MaxWindowsLeft + 11
      [] pc = "main" -> 5 * MaxWindowsLeft + 12

\* a bound on the steps the run can still take
Rank ==
    IF pc = "done" THEN 0
    ELSE (Len(argv) + 1 - optind) * StepsPerArg + StepsLeft

\* before its end the run can always take a step
C2_NeverStuck == pc # "done" => ENABLED Next

\* every step brings the end of the run nearer
C2_Progress == Rank >= 0 /\ Rank' < Rank

\* C2: the arguments are handled once each, in order, with one outcome each;
\* no step is the last one before the end, and every step brings the end
\* nearer, so the run ends, with all arguments handled
C2_EveryPathOnce ==
    /\ [](C2_Orderly /\ C2_NeverStuck)
    /\ [][C2_Progress]_vars

\* a finished run whose first argument failed and whose last was scanned
C2_Witness ==
    /\ pc = "done"
    /\ Len(argv) = 2
    /\ outcomes[1].ret < 0
    /\ outcomes[2].ret = 0
    /\ Len(tb) = 1
    /\ tb[1].arg = 2

(***************************************************************************)
(* C3.  An argument whose open fails gets a diagnostic and no table line,  *)
(* and the arguments after it are still handled.                           *)
(***************************************************************************)
C3_OpenFailureNoRow ==
    /\ \A i \in Processed :
          argv[i].kind = "NOENT" => (OpenFailed(i) /\ Rows(i) = {})
    /\ pc = "done" => Len(outcomes) = Len(argv)

(***************************************************************************)
(* C4.  When mmap fails on a window of a file, that call is the last map   *)
(* or query of the file, no line is added for the file, the file's outcome *)
(* is Failed, and the run goes on to the next argument.                    *)
(***************************************************************************)
MmapFailureLast(c) ==
    \A k \in 1..Len(c) : (c[k].op = "mmap" /\ ~c[k].ok) => k = Len(c)

\* C4: a failed mmap is the last map or query of its file, the file gets no
\* line and is Failed, and the run still handles the arguments after it
C4_MapFailureAborts ==
    /\ MmapFailureLast(calls)
    /\ \A i \in Processed :
          LET c == outcomes[i].calls IN
          /\ MmapFailureLast(c)
          /\ (\E k \in 1..Len(c) : c[k].op = "mmap" /\ ~c[k].ok) =>
                /\ Rows(i) = {}
                /\ Failed(i)
                /\ MmapFailed(i)
    /\ \A i \in Processed : MmapFailed(i) => Failed(i)
    /\ pc = "done" => Len(outcomes) = Len(argv)

\* mmap failed on the second window of the first file, after the first
\* window had counted a resident page; the second file was then scanned
C4_Witness ==
    /\ pc = "done"
    /\ Len(argv) = 2
    /\ MmapFailed(1)
    /\ Len(MmapCalls(outcomes[1].calls)) = 2
    /\ Rows(1) = {}
    /\ outcomes[2].ret = 0
    /\ Len(MmapCalls(outcomes[2].calls)) = 2
    /\ \E k \in Rows(2) : tb[k].pages > 0

(***************************************************************************)
(* C5.  At most one mapping is live at any time, and when the scan of a    *)
(* file has ended (normally, by mmap failure or by mincore failure) no     *)
(* mapping of it remains.                                                  *)
(***************************************************************************)
C5_MappingsReleased ==
    /\ Cardinality(mappings) <= 1
    /\ pc \notin ScanPcs => mappings = {}

(***************************************************************************)
(* C6.  In a failure-free scan of a file of size > 0 the mmap calls tile   *)
(* [0, size): first offset 0, each offset the previous offset plus the     *)
(* previous length, every offset a multiple of the page size, every window *)
(* but the last of the full window size, the last of length size - offset  *)
(* (1 .. window size), lengths summing to size; hence k windows for a size *)
(* of k window sizes, and two windows, the second of one byte (one page),  *)
(* for a window size plus one.                                             *)
(***************************************************************************)
Tiles(m, size) ==
    /\ m # <<>>
    /\ m[1].off = 0
    /\ \A k \in 2..Len(m) : m[k].off = m[k - 1].off + m[k - 1].len
    /\ \A k \in 1..Len(m) : m[k].off % PageSize = 0
    /\ \A k \in 1..(Len(m) - 1) : m[k].len = WindowSize
    /\ m[Len(m)].len = size - m[Len(m)].off
    /\ m[Len(m)].len \in 1..WindowSize
    /\ SumLen(m) = size
    /\ \A k \in 1..2 : size = k * WindowSize => Len(m) = k
    /\ size = WindowSize + 1 =>
          /\ Len(m) = 2
          /\ m[2].len = 1
          /\ n_pages(m[2].len, PageSize) = 1

\* C6: the mmap calls of every failure-free scan tile [0, size)
C6_WindowsTile ==
    \A i \in Processed :
       LET c == outcomes[i].calls IN
       /\ (argv[i].kind = "REG" /\ argv[i].size > 0 /\ outcomes[i].ret = 0)
             => c # <<>>
       /\ (c # <<>> /\ outcomes[i].ret = 0)
             => Tiles(MmapCalls(c), argv[i].size)

\* a file of one window size plus one byte was scanned in two windows
C6_Witness ==
    \E i \in Processed :
       /\ argv[i].kind = "REG"
       /\ argv[i].size = WindowSize + 1
       /\ outcomes[i].ret = 0
       /\ Len(MmapCalls(outcomes[i].calls)) = 2
       /\ MmapCalls(outcomes[i].calls)[2].len = 1

(***************************************************************************)
(* C7.  During a scan, and in every table line, the resident page count is *)
(* at most ceil(fileSize / pageSize).                                      *)
(***************************************************************************)
\* the bound of C7 inside a scan (it holds there)
C7_ScanBound ==
    pc \in ScanPcs => count_incore <= CeilDiv(sb.st_size, PageSize)

\* C7: the page count is at most ceil(size / pagesize) during a scan and in
\* every table line
C7_CountBound ==
    /\ C7_ScanBound
    /\ \A k \in 1..Len(tb) : tb[k].pages <= CeilDiv(tb[k].size, PageSize)

(***************************************************************************)
(* C8.  A regular file of size 0 that opens and stats successfully is not  *)
(* mapped or queried, gets exactly one table line, with 0 pages and size   *)
(* 0, and leaves the exit status as it was.                                *)
(***************************************************************************)
C8_ZeroByteFile ==
    /\ (pc \notin {"main", "done"} /\ argv[optind].kind = "REG"
          /\ argv[optind].size = 0) => (calls = <<>> /\ pc \notin ScanPcs)
    /\ \A i \in Processed :
          (argv[i].kind = "REG" /\ argv[i].size = 0 /\ ~FstatFailed(i)) =>
             /\ outcomes[i].calls = <<>>
             /\ Cardinality(Rows(i)) = 1
             /\ \A k \in Rows(i) : tb[k].pages = 0 /\ tb[k].size = 0
             /\ outcomes[i].rc_after = outcomes[i].rc_before

\* an empty regular file got its line after an earlier argument had failed
C8_Witness ==
    /\ Len(outcomes) = 2
    /\ argv[2].kind = "REG"
    /\ argv[2].size = 0
    /\ Cardinality(Rows(2)) = 1
    /\ main_rc = EXIT_FAILURE

(***************************************************************************)
(* C9.  A directory is never mapped or queried, gets no table line, and    *)
(* does not by itself change the exit status, wherever it stands in the    *)
(* argument list.                                                          *)
(***************************************************************************)
C9_Directory ==
    /\ (pc \notin {"main", "done"} /\ argv[optind].kind = "DIR")
          => (calls = <<>> /\ pc \notin ScanPcs)
    /\ \A i \in Processed :
          argv[i].kind = "DIR" =>
             /\ outcomes[i].calls = <<>>
             /\ Rows(i) = {}
             /\ ~FstatFailed(i) =>
                   outcomes[i].rc_after = outcomes[i].rc_before

\* a directory after a scanned file: the table holds the file's line only
C9_Witness ==
    /\ pc = "done"
    /\ Len(argv) = 2
    /\ argv[2].kind = "DIR"
    /\ argv[2].size > 0
    /\ ~FstatFailed(2)
    /\ outcomes[2].ret = 1
    /\ Len(tb) = 1
    /\ main_rc = EXIT_SUCCESS

(***************************************************************************)
(* C10.  A path that is neither a regular file nor a directory is never    *)
(* mapped or queried, whatever size fstat reports, and is Skipped.         *)
(***************************************************************************)
C10_OtherSkipped ==
    \A i \in Processed :
       (argv[i].kind = "OTHER" /\ ~FstatFailed(i)) =>
          /\ outcomes[i].calls = <<>>
          /\ outcomes[i].ret = 1
          /\ Rows(i) = {}

(***************************************************************************)
(* C11.  When fstat fails on an opened path, a diagnostic is written, the  *)
(* path gets no table line, nothing of it is mapped or queried, its        *)
(* outcome is Failed, the exit status becomes failure, and the arguments   *)
(* after it are still handled.                                             *)
(***************************************************************************)
\* fstat failed on the current argument: the descriptor is open, sb was
\* never filled, and fincore_name has returned
FstatFailing ==
    pc = "switch" /\ argv[optind].kind # "NOENT" /\ ~sb.filled

\* C11: a failed fstat is reported, maps nothing, adds no line, makes the
\* path Failed and the exit status failure, and does not end the run
C11_FstatFailure ==
    /\ FstatFailing =>
          /\ FstatFailed(optind)
          /\ ret < 0
          /\ calls = <<>>
    /\ \A i \in Processed :
          (argv[i].kind # "NOENT" /\ outcomes[i].calls = <<>>
             /\ outcomes[i].ret \notin {0, 1}) => FstatFailed(i)
    /\ \A i \in Processed :
          FstatFailed(i) =>
             /\ outcomes[i].calls = <<>>
             /\ Rows(i) = {}
             /\ Failed(i)
             /\ main_rc = EXIT_FAILURE
    /\ pc = "done" => Len(outcomes) = Len(argv)

\* fstat failed on the first argument; the second one was scanned and has
\* its line, and the run ended in failure
C11_Witness ==
    /\ pc = "done"
    /\ Len(argv) = 2
    /\ FstatFailed(1)
    /\ outcomes[2].ret = 0
    /\ outcomes[2].calls # <<>>
    /\ Rows(2) # {}
    /\ main_rc = EXIT_FAILURE

(***************************************************************************)
(* C13.  When mincore fails on a window of a file, a diagnostic naming the *)
(* file is written, that call is the last map or query of the file, the    *)
(* file gets no table line, the exit status becomes failure, and the run   *)
(* goes on to the next argument.                                           *)
(***************************************************************************)
MincoreFailureLast(c) ==
    \A k \in 1..Len(c) : (c[k].op = "mincore" /\ ~c[k].ok) => k = Len(c)

\* some mincore call of this sequence of calls failed
SomeMincoreFailed(c) == \E k \in 1..Len(c) : c[k].op = "mincore" /\ ~c[k].ok

\* C13: a failed mincore is reported with the file, is the last map or query
\* of its file, leaves the file without a line, Failed, the exit status
\* failure, and the run still handles the arguments after it
C13_MincoreFailureAborts ==
    /\ MincoreFailureLast(calls)
    /\ (pc \notin {"main", "done"} /\ SomeMincoreFailed(calls))
          => MincoreFailed(optind)
    /\ \A i \in Processed :
          LET c == outcomes[i].calls IN
          /\ MincoreFailureLast(c)
          /\ MincoreFailed(i) <=> SomeMincoreFailed(c)
          /\ SomeMincoreFailed(c) =>
                /\ Rows(i) = {}
                /\ Failed(i)
                /\ main_rc = EXIT_FAILURE
    /\ pc = "done" => Len(outcomes) = Len(argv)

\* mincore failed on the second window of the first file, after the first
\* window had been counted; the second file was then scanned in two windows
C13_Witness ==
    /\ pc = "done"
    /\ Len(argv) = 2
    /\ MincoreFailed(1)
    /\ Len(MmapCalls(outcomes[1].calls)) = 2
    /\ Rows(1) = {}
    /\ outcomes[2].ret = 0
    /\ Len(MmapCalls(outcomes[2].calls)) = 2
    /\ Rows(2) # {}
    /\ main_rc = EXIT_FAILURE

(***************************************************************************)
(* C14.  For each window the counter takes ceil(len / pagesize) entries of *)
(* the vector, indices 0 .. n-1 and none beyond, and adds to the file's    *)
(* total exactly the number of them whose low bit is set; nothing else     *)
(* changes the total, so the total of a failure-free scan, which is the    *)
(* page count of the file's table line, is the sum of the per-window       *)
(* counts.                                                                 *)
(***************************************************************************)
\* the residency flag of a vector byte
FlagSet(b) == b \in {1, 3, 5, 7}

\* the entries of the first n whose flag is set
Flagged(v, n) == {i \in 0..(n - 1) : FlagSet(v[i])}

C14_CountStep ==
    LET n == n_pages(len, PageSize) IN
    /\ pc = "count" =>
          /\ n = CeilDiv(len, PageSize)
          /\ n \in 1..WindowPages
          /\ count_incore' = count_incore + Cardinality(Flagged(vec, n))
          /\ \A i \in DOMAIN vec : i >= n => vec'[i] = vec[i]
    /\ pc \notin {"count", "main"} => count_incore' = count_incore
    /\ pc = "main" => count_incore' \in {0, count_incore}
    /\ (pc = "switch" /\ ret = 0) =>
          /\ Len(tb') = Len(tb) + 1
          /\ tb'[Len(tb')].pages = count_incore

\* the total never exceeds the pages of the windows queried so far
C14_TotalSoFar ==
    pc \in ScanPcs =>
       count_incore <= CeilDiv(IF pc = "munmap" THEN file_offset + len
                               ELSE file_offset, PageSize)

AllConsumed ==
    \A k \in 1..Len(stderr) : stderr[k].msg # "failed to do mincore"

C15_CleanAtQuery ==
    (pc = "mincore" /\ AllConsumed) => \A i \in DOMAIN vec : ~FlagSet(vec[i])

C15_ClearStep ==
    /\ pc = "count" =>
          \A i \in 0..(n_pages(len, PageSize) - 1) : ~FlagSet(vec'[i])
    /\ pc # "mincore" =>
          \A i \in DOMAIN vec : ~FlagSet(vec[i]) => ~FlagSet(vec'[i])

Diags(i) == {k \in 1..Len(stderr) : stderr[k].arg = i}

\* some mmap call of this sequence of calls failed
SomeMmapFailed(c) == \E k \in 1..Len(c) : c[k].op = "mmap" /\ ~c[k].ok

\* argument i met an error: its open failed or fincore_name returned an error
HadError(i) == argv[i].kind = "NOENT" \/ outcomes[i].ret \notin {0, 1}

\* C16: one diagnostic per failed path, of the failed call's kind; none for
\* a path without error; a line for every path that succeeded
C16_OneDiagnosticPerError ==
    /\ \A i \in 1..Len(argv) : Cardinality(Diags(i)) <= 1
    /\ \A i \in Processed :
          LET c == outcomes[i].calls IN
          /\ Cardinality(Diags(i)) = (IF HadError(i) THEN 1 ELSE 0)
          /\ argv[i].kind = "NOENT" => OpenFailed(i)
          /\ SomeMmapFailed(c) => MmapFailed(i)
          /\ SomeMincoreFailed(c) => MincoreFailed(i)
          /\ (outcomes[i].ret \notin {0, 1} /\ ~SomeMmapFailed(c)
                /\ ~SomeMincoreFailed(c)) => FstatFailed(i)
          /\ ~HadError(i) /\ outcomes[i].ret = 0 =>
                \E k \in Rows(i) : tb[k].size = argv[i].size

\* the first file failed in mmap on its second window and has one
\* diagnostic; the second was scanned without error and has its line
C16_Witness ==
    /\ pc = "done"
    /\ Len(argv) = 2
    /\ SomeMmapFailed(outcomes[1].calls)
    /\ Len(MmapCalls(outcomes[1].calls)) = 2
    /\ Cardinality(Diags(1)) = 1
    /\ Diags(2) = {}
    /\ outcomes[2].calls # <<>>
    /\ Len(tb) = 1
    /\ tb[1].arg = 2

(***************************************************************************)
(* C17.  When the processing of a path has ended, the descriptor opened    *)
(* for it is closed, so the run never holds more than one descriptor.      *)
(***************************************************************************)
\* the control points between two paths, where no path is being processed
BetweenPaths == {"main", "open", "switch", "done"}

\* C17: at most one descriptor is open, and none between two paths
C17_DescriptorClosed ==
    /\ Cardinality(open_fds) <= 1
    /\ pc \in BetweenPaths => open_fds = {}

\* fstat failed on both paths and the run ended holding two descriptors
C17_Leak ==
    /\ pc = "done"
    /\ Len(argv) = 2
    /\ FstatFailed(1)
    /\ FstatFailed(2)
    /\ Cardinality(open_fds) = 2

(***************************************************************************)
(* C12.  The same path given twice, both scans without error: if no page   *)
(* reported resident in the first scan is reported absent in the second,   *)
(* the second line's count is at least the first's, and the two are equal  *)
(* when the reports are the same; nothing the first scan left in vec       *)
(* changes the second count.                                               *)
(***************************************************************************)
\* the successful residency queries among a sequence of calls
Queries(c) == SelectSeq(c, LAMBDA x : x.op = "mincore" /\ x.ok)

\* argument i is a regular file whose scan ran to its end without error
ScanComplete(i) ==
    /\ i \in Processed
    /\ argv[i].kind = "REG"
    /\ outcomes[i].ret = 0

\* no page the first scan reported resident is absent in the second
NoEviction(q1, q2) ==
    /\ Len(q1) = Len(q2)
    /\ \A k \in 1..Len(q1) : q1[k].off = q2[k].off /\ q1[k].res \subseteq q2[k].res

\* the two scans were given the same report
SameResidency(q1, q2) ==
    /\ Len(q1) = Len(q2)
    /\ \A k \in 1..Len(q1) : q1[k].off = q2[k].off /\ q1[k].res = q2[k].res

\* C12: second count >= first count without eviction, equal when unchanged
C12_RescanMonotone ==
    (ScanComplete(1) /\ ScanComplete(2)) =>
        LET q1 == Queries(outcomes[1].calls)
            q2 == Queries(outcomes[2].calls)
        IN  \A k1 \in Rows(1), k2 \in Rows(2) :
               /\ NoEviction(q1, q2) => tb[k2].pages >= tb[k1].pages
               /\ SameResidency(q1, q2) => tb[k2].pages = tb[k1].pages

\* a file of two windows scanned twice, the first scan finding resident
\* pages in both windows, the second the same pages
C12_Witness ==
    /\ pc = "done"
    /\ ScanComplete(1)
    /\ ScanComplete(2)
    /\ Len(Queries(outcomes[1].calls)) = 2
    /\ SameResidency(Queries(outcomes[1].calls), Queries(outcomes[2].calls))
    /\ \A k \in 1..2 : Queries(outcomes[1].calls)[k].res # {}
    /\ Len(tb) = 2
    /\ tb[1].pages = tb[2].pages
    /\ tb[1].pages >= 2

(***************************************************************************)
(* C18.  With window_size computed as N_PAGES_IN_WINDOW * pagesize in int  *)
(* arithmetic and then widened, for the page sizes 4, 16 and 64 KiB and    *)
(* every file size the window size is positive and is 32768 * pagesize, so *)
(* no window has more than N_PAGES_IN_WINDOW pages and mincore stays       *)
(* inside vec.                                                             *)
(***************************************************************************)
\* fincore_fd has computed window_size
SizeComputed == scan.pc \notin {"idle", "entry"}

\* C18: the window size is the product, and no window has more pages than
\* vec has bytes
C18_WindowFits ==
    /\ SizeComputed =>
          scan.window_size > 0 /\
          scan.window_size = N_PAGES_IN_WINDOW * scan.pagesize
    /\ scan.n <= N_PAGES_IN_WINDOW

\* with 64 KiB pages the product wrapped, the one window is the whole file
\* of more than 2 GiB, and mincore was given more pages than vec holds
C18_Overrun ==
    /\ scan.pc = "overrun"
    /\ scan.pagesize = 64
    /\ scan.window_size = to_int(N_PAGES_IN_WINDOW * 64)
    /\ scan.window_size < 0
    /\ scan.len = scan.file_size
    /\ scan.n > N_PAGES_IN_WINDOW

\* with 4 KiB and 16 KiB pages the claim's statement holds
C18_SmallPagesFit == scan.pagesize \in {4, 16} => C18_WindowFits

====
